---- MODULE Spec2Model ----
(***************************************************************************)
(* EC2LatentBuildSlave (master/buildbot/buildslave/ec2.py): the lifecycle  *)
(* of one controller object.  The scheduler calls start_instance and       *)
(* stop_instance on the reactor thread; each accepted call defers its      *)
(* blocking work (_start_instance, _request_spot_instance, _stop_instance) *)
(* to a pool thread.  A thread step is one remote call or one access to    *)
(* the shared attributes self.instance / self.output; a run of statements  *)
(* that only reads them between two remote calls is one step.              *)
(*                                                                         *)
(* EC2 is the environment.  Its own progress (an instance booting, a spot  *)
(* request being evaluated, a terminated instance being forgotten) shows   *)
(* only in its answers, so it is taken at the call that observes it.       *)
(*                                                                         *)
(* Identifiers: the call numbered c launches instance c and, on the spot   *)
(* path, issues spot request c.  Prices are in cents, price_multiplier in  *)
(* tenths; a bid is the exact rational num/den cents (the floating point   *)
(* rounding of the source is not modelled).                                *)
(* Strings that the code compares or parses (image locations and ids, the  *)
(* first group of the location regex) are sequences of character codes.    *)
(* Spec, RaceSpec and StartSpec keep the defaults of lines 69-73 (volumes  *)
(* = [], create_volumes = [], tags = {}, an explicit ami); PostSpec varies *)
(* them, InitSpec, ImageSpec and MappingSpec are about construction.       *)
(***************************************************************************)
EXTENDS Integers, Sequences, FiniteSets, TLC

\* ---- bounds of the model
MaxCalls == 2
MaxHist == 2
MaxImages == 3

\* ---- constants of the source
PENDING == "pending"
RUNNING == "running"
SHUTTINGDOWN == "shutting-down"
TERMINATED == "terminated"
SPOT_REQUEST_PENDING_STATES == {"pending-evaluation", "pending-fulfillment"}
FULFILLED == "fulfilled"
PRICE_TOO_LOW == "price-too-low"
_poll_retry == 10
FallbackCents == 2

\* None for a status or a name; NoInstance is self.instance = None
None == "None"
NoInstance == 0

\* ---- remote side: statuses the EC2 API can report
ABSENT == "absent"
GONE == "gone"
CANCELED == "canceled-before-fulfillment"
NotFound == "NotFound"
OtherError == "OtherError"

instance_type == "m1.small"
InstanceTypes == {instance_type, "c1.medium"}
PriceSet == {1, 125}
PriceEntries == [instance_type : InstanceTypes, price : PriceSet]
Histories == UNION {[1..n -> PriceEntries] : n \in 0..MaxHist}

\* Spec lets the scheduler make MaxCalls calls, RaceSpec one more
Calls == 1..(MaxCalls + 1)

\* ---- images: a location or an id is a string, the sequence of its character codes
VOLUME_CREATING == "creating"
VOLUME_AVAILABLE == "available"
VOLUME_DELETING == "deleting"
VOLUME_ERROR == "error"

Chr_a == <<97>>
Chr_b == <<98>>
Chr_0 == <<48>>
Chr_1 == <<49>>
Chr_2 == <<50>>
Chr_x == <<120>>
Digits == 48..57

\* self.image = None, and the images EC2 may list
NoImage == [id |-> <<>>, location |-> <<>>, state |-> None]
Images ==
  { [id |-> Chr_1, location |-> Chr_a \o Chr_1, state |-> "available"],
    [id |-> Chr_2, location |-> Chr_a \o Chr_2, state |-> "available"],
    [id |-> Chr_x, location |-> Chr_a \o Chr_2, state |-> "available"],
    [id |-> Chr_0, location |-> Chr_a \o Chr_1 \o Chr_0, state |-> "available"],
    [id |-> Chr_a, location |-> Chr_a \o Chr_x, state |-> "available"],
    [id |-> Chr_b, location |-> Chr_a, state |-> "available"],
    [id |-> Chr_1 \o Chr_1, location |-> Chr_b \o Chr_2, state |-> "available"],
    [id |-> Chr_1 \o Chr_2, location |-> Chr_a \o Chr_2 \o Chr_2, state |-> "pending"] }
ExplicitImage == [id |-> Chr_a \o Chr_x, location |-> Chr_b, state |-> "available"]

\* lists of at most MaxImages different images, in any order
ImageLists ==
  UNION {{l \in [1..n -> Images] : \A j, k \in 1..n : j # k => l[j] # l[k]}
           : n \in 0..MaxImages}

\* the location patterns: one group, one optional group, no group
RegexGroup == "a([0-9x]+)"
RegexOptionalGroup == "a([0-9x]+)?"
RegexNoGroup == "a[0-9x]*"
Regexes == {RegexGroup, RegexOptionalGroup, RegexNoGroup}

VARIABLES
  spot_instance,     \* self.spot_instance
  elastic_ip,        \* self.elastic_ip is not None
  max_spot_price,    \* self.max_spot_price, cents
  price_multiplier,  \* self.price_multiplier, tenths
  spot_prices,       \* what get_spot_price_history returns
  max_lag,           \* how often EC2 answers not-found for a request it just took
  init_args,         \* the arguments of __init__ that it validates
  ami,               \* self.ami
  valid_ami_location_regex,  \* self.valid_ami_location_regex
  all_images,        \* what get_all_images(owners=self.valid_ami_owners) returns
  image,             \* self.image
  mapping_definitions,  \* the block_device_map argument of __init__
  block_device_map,  \* self.block_device_map
  outcome,           \* how __init__, get_image or create_block_device_mapping ended
  volumes,           \* self.volumes: (volume_id, device_node) to attach
  create_volumes,    \* self.create_volumes: (device_node, volume_size, region)
  tags,              \* self.tags
  delete_vol_term,   \* self.delete_vol_term
  instance_devices,  \* the blockDeviceMapping EC2 reports for a launched instance
  instance,          \* self.instance: NoInstance or the id of the Instance object
  output,            \* self.output: NoInstance (None) or the id whose console output it holds
  inst_state,        \* Instance.state of the client-side object of each instance
  remote,            \* the status of each instance at EC2
  requests,          \* the status code of each spot request at EC2
  bids,              \* the price each spot request was issued at
  ncalls,            \* number of calls the scheduler has made
  op,                \* per call: "start" or "stop"
  fast,              \* per stop call: its argument
  pc,                \* per call: position of the call / of its deferred work
  stop_inst,         \* per stop call: the instance handed to _stop_instance
  attempts,          \* per start call: attempts of _wait_for_request
  request_status,    \* per start call: request_status of _wait_for_request
  target_price,      \* per start call: target_price of _request_spot_instance
  result,            \* per call: what the deferred fired with
  err,               \* per call: the exception raised
  log,               \* per call: the remote calls made, in order (polls left out)
  created,           \* per start call: the status at EC2 of each volume it created
  vol,               \* per start call: vol.status of _create_volumes
  attachments,       \* the attach_volume calls EC2 has received, in order
  launched,          \* per start call: the id of the image its launch call submitted
  wait_image         \* per start call: the id of the image argument of _wait_for_instance

construction == <<init_args, ami, valid_ami_location_regex, all_images, image,
                 mapping_definitions, block_device_map, outcome>>
declared == <<volumes, create_volumes, tags, delete_vol_term, instance_devices>>
config == <<spot_instance, elastic_ip, max_spot_price, price_multiplier, spot_prices,
           max_lag, construction, declared>>
shared == <<instance, output, inst_state>>
ec2 == <<remote, requests, bids>>
locals == <<stop_inst, attempts, request_status, target_price>>
storage == <<created, vol, attachments>>
launch == <<launched, wait_image>>
lifecycle == <<shared, ec2, ncalls, op, fast, pc, locals, result, err, log, storage, launch>>
vars == <<config, lifecycle>>

NoError == [kind |-> None, args |-> <<>>]
NoId == <<>>
NoResult == [ret |-> "unset", instance_id |-> NoInstance, image_id |-> NoId]
NoBid == [num |-> 0, den |-> 1]
NoOutcome == [ret |-> "unset", error |-> None, image |-> NoImage, calls |-> <<>>]
NoMapping == [given |-> FALSE, entries |-> <<>>]
DefaultArgs ==
  [ami |-> "ami", valid_ami_owners |-> None, valid_ami_location_regex |-> None,
   security_name |-> None, subnet_id |-> None, identifier |-> None,
   secret_identifier |-> None, aws_id_file_path |-> None, region |-> None]

\* a controller constructed with an explicit ami and no block device map
ExplicitAmi ==
  /\ init_args = DefaultArgs
  /\ ami = "ami"
  /\ valid_ami_location_regex = None
  /\ all_images = <<>>
  /\ image = ExplicitImage
  /\ mapping_definitions = NoMapping
  /\ block_device_map = NoMapping
  /\ outcome = NoOutcome

\* the defaults of lines 71-73, and an instance with one block device
NothingDeclared ==
  /\ volumes = <<>>
  /\ create_volumes = <<>>
  /\ tags = {}
  /\ delete_vol_term = TRUE
  /\ instance_devices = <<"/dev/sda1">>

\* the controller right after __init__: nothing launched, nothing called
Constructed ==
  /\ instance = NoInstance
  /\ output = NoInstance
  /\ inst_state = [i \in Calls |-> None]
  /\ remote = [i \in Calls |-> ABSENT]
  /\ requests = [i \in Calls |-> ABSENT]
  /\ bids = [i \in Calls |-> NoBid]
  /\ ncalls = 0
  /\ op = [c \in Calls |-> None]
  /\ fast = [c \in Calls |-> FALSE]
  /\ pc = [c \in Calls |-> "uncalled"]
  /\ stop_inst = [c \in Calls |-> NoInstance]
  /\ attempts = [c \in Calls |-> 0]
  /\ request_status = [c \in Calls |-> None]
  /\ target_price = [c \in Calls |-> NoBid]
  /\ result = [c \in Calls |-> NoResult]
  /\ err = [c \in Calls |-> NoError]
  /\ log = [c \in Calls |-> <<>>]
  /\ created = [c \in Calls |-> <<>>]
  /\ vol = [c \in Calls |-> None]
  /\ attachments = <<>>
  /\ launched = [c \in Calls |-> NoId]
  /\ wait_image = [c \in Calls |-> NoId]

\* any scheduler: the default prices, an empty market, requests known at once
Init ==
  /\ spot_instance \in BOOLEAN
  /\ elastic_ip \in IF spot_instance THEN {FALSE} ELSE BOOLEAN
  /\ max_spot_price = 160
  /\ price_multiplier = 12
  /\ spot_prices = <<>>
  /\ max_lag = 0
  /\ ExplicitAmi
  /\ NothingDeclared
  /\ Constructed

\* a single start_instance: every market, a request that stays unknown for long
StartInit ==
  /\ spot_instance \in BOOLEAN
  /\ elastic_ip \in IF spot_instance THEN {FALSE} ELSE BOOLEAN
  /\ max_spot_price \in IF spot_instance THEN {100, 160} ELSE {160}
  /\ price_multiplier \in IF spot_instance THEN {10, 12} ELSE {12}
  /\ spot_prices \in IF spot_instance THEN Histories ELSE {<<>>}
  /\ max_lag = IF spot_instance THEN _poll_retry ELSE 0
  /\ ExplicitAmi
  /\ NothingDeclared
  /\ Constructed

\* what may be declared: volumes to attach, volumes to create, tags
DeclaredVolumes ==
  {<<>>,
   <<[volume_id |-> 101, device_node |-> "/dev/sdf"]>>,
   <<[volume_id |-> 101, device_node |-> "/dev/sdf"],
     [volume_id |-> 102, device_node |-> "/dev/sdg"]>>}
DeclaredCreateVolumes ==
  {<<>>,
   <<[device_node |-> "/dev/sdh", volume_size |-> 8, region |-> "us-east-1a"]>>,
   <<[device_node |-> "/dev/sdh", volume_size |-> 8, region |-> "us-east-1a"],
     [device_node |-> "/dev/sdi", volume_size |-> 16, region |-> "us-east-1a"]>>}

\* a single start_instance with volumes, tags, an elastic ip
PostInit ==
  /\ spot_instance \in BOOLEAN
  /\ elastic_ip \in BOOLEAN
  /\ max_spot_price = 160
  /\ price_multiplier = 12
  /\ spot_prices = <<>>
  /\ max_lag = 0
  /\ ExplicitAmi
  /\ volumes \in DeclaredVolumes
  /\ create_volumes \in DeclaredCreateVolumes
  /\ tags \in {{}, {"Name"}}
  /\ delete_vol_term \in BOOLEAN
  /\ instance_devices \in {<<>>, <<"/dev/sda1">>}
  /\ Constructed

\* the policy defaults of lines 71-72, on demand, no elastic ip
DefaultPolicy ==
  /\ spot_instance = FALSE
  /\ elastic_ip = FALSE
  /\ max_spot_price = 160
  /\ price_multiplier = 12
  /\ spot_prices = <<>>
  /\ max_lag = 0

\* a constructed controller about to choose its image: an explicit image, or
\* constraints and any list of images
ImageInit ==
  /\ DefaultPolicy
  /\ init_args = DefaultArgs
  /\ \/ /\ ami = "ami"
        /\ image = ExplicitImage
        /\ valid_ami_location_regex = None
        /\ all_images = <<>>
     \/ /\ ami = None
        /\ image = NoImage
        /\ valid_ami_location_regex \in {None} \cup Regexes
        /\ all_images \in ImageLists
  /\ mapping_definitions = NoMapping
  /\ block_device_map = NoMapping
  /\ outcome = NoOutcome
  /\ NothingDeclared
  /\ Constructed

\* arguments of __init__: a regex argument may be no string, or not compile
NotAString == "<not a string>"
BadRegex == "a("
ArgSets ==
  [ami : {None, "ami"},
   valid_ami_owners : {None, "ints", "not ints"},
   valid_ami_location_regex : {None, RegexGroup, NotAString, BadRegex},
   security_name : {None, "sg"},
   subnet_id : {None, "subnet"},
   identifier : {None, "id"},
   secret_identifier : {None, "secret"},
   aws_id_file_path : {None, "path"},
   region : {None, "known", "unknown"}]

Devices == {"/dev/sda1", "/dev/sdb"}
PropertyNames == {"delete_on_termination", "size", "volume_type"}
DeviceProperties ==
  {[n \in names |-> IF n = "delete_on_termination" THEN dot
                    ELSE IF n = "size" THEN "8" ELSE "gp2"] :
     names \in SUBSET PropertyNames, dot \in BOOLEAN}
MappingDefinitions ==
  {NoMapping} \cup
  {[given |-> TRUE, entries |-> e] :
     e \in UNION {[ds -> DeviceProperties] : ds \in SUBSET Devices}}

\* the arguments of a controller about to be constructed
ArgsInit ==
  /\ spot_instance = FALSE
  /\ elastic_ip \in BOOLEAN
  /\ max_spot_price = 160
  /\ price_multiplier = 12
  /\ spot_prices = <<>>
  /\ max_lag = 0
  /\ init_args \in ArgSets
  /\ ami = None
  /\ valid_ami_location_regex = None
  /\ all_images \in {l \in ImageLists : Len(l) <= 1 /\ \A k \in 1..Len(l) : Len(l[k].id) = 2}
  /\ image = NoImage
  /\ mapping_definitions = NoMapping
  /\ block_device_map = NoMapping
  /\ outcome = NoOutcome
  /\ NothingDeclared
  /\ Constructed

\* a block_device_map argument about to be converted
MappingInit ==
  /\ DefaultPolicy
  /\ init_args = DefaultArgs
  /\ ami = "ami"
  /\ valid_ami_location_regex = None
  /\ all_images = <<>>
  /\ image = ExplicitImage
  /\ mapping_definitions \in MappingDefinitions
  /\ block_device_map = NoMapping
  /\ outcome = NoOutcome
  /\ NothingDeclared
  /\ Constructed

\* ---- helpers
Raise(c, kind, args) ==
  /\ pc' = [pc EXCEPT ![c] = "failed"]
  /\ err' = [err EXCEPT ![c] = [kind |-> kind, args |-> args]]

Return(c, r) ==
  /\ pc' = [pc EXCEPT ![c] = "done"]
  /\ result' = [result EXCEPT ![c] = r]

Goto(c, where) == pc' = [pc EXCEPT ![c] = where]

Logged(c, calls) == log' = [log EXCEPT ![c] = @ \o calls]

\* ---- EC2
\* where an instance in status s may be by the time it is next looked at
InstanceReach(s) ==
  CASE s = PENDING -> {PENDING, RUNNING, SHUTTINGDOWN, TERMINATED, GONE}
    [] s = RUNNING -> {RUNNING, SHUTTINGDOWN, TERMINATED, GONE}
    [] s = SHUTTINGDOWN -> {SHUTTINGDOWN, TERMINATED, GONE}
    [] s = TERMINATED -> {TERMINATED, GONE}
    [] OTHER -> {s}

\* what a describe of instance i (Instance.update, get_all_instances) answers, and
\* where it leaves the instance: its status, InvalidInstanceID.NotFound once it is
\* forgotten or while it is still unknown to the API, or another error
UpdateOutcomes(i) ==
  {[answer |-> IF s = GONE THEN NotFound ELSE s, now |-> s] : s \in InstanceReach(remote[i])}
  \cup (IF remote[i] = PENDING THEN {[answer |-> NotFound, now |-> PENDING]} ELSE {})
  \cup {[answer |-> OtherError, now |-> remote[i]]}

RequestReach(s) ==
  CASE s = "pending-evaluation" ->
         {"pending-evaluation", "pending-fulfillment", FULFILLED, PRICE_TOO_LOW, CANCELED}
    [] s = "pending-fulfillment" ->
         {"pending-fulfillment", FULFILLED, PRICE_TOO_LOW, CANCELED}
    [] OTHER -> {s}

\* what get_all_spot_instance_requests answers for request r; lagging says whether
\* EC2 may still answer InvalidSpotInstanceRequestID.NotFound for it
RequestOutcomes(r, lagging) ==
  {[answer |-> s, now |-> s] : s \in RequestReach(requests[r])}
  \cup (IF lagging /\ requests[r] = "pending-evaluation"
          THEN {[answer |-> NotFound, now |-> requests[r]]} ELSE {})
  \cup {[answer |-> OtherError, now |-> requests[r]]}

\* request r is now in status s; fulfilling it launches its instance
Evaluated(r, s) ==
  /\ requests' = [requests EXCEPT ![r] = s]
  /\ remote' = IF s = FULFILLED /\ requests[r] # FULFILLED
                 THEN [remote EXCEPT ![r] = PENDING] ELSE remote

\* ---- pure parts of _request_spot_instance
RECURSIVE price_sum(_)
price_sum(h) ==
  IF h = <<>> THEN 0
  ELSE (IF Head(h).instance_type = instance_type THEN Head(h).price ELSE 0)
       + price_sum(Tail(h))

RECURSIVE price_count(_)
price_count(h) ==
  IF h = <<>> THEN 0
  ELSE (IF Head(h).instance_type = instance_type THEN 1 ELSE 0)
       + price_count(Tail(h))

\* TargetPrice without the price multiplier
TargetPrice_unscaled(h) ==
  IF price_count(h) = 0
  THEN [num |-> FallbackCents, den |-> 1]
  ELSE [num |-> price_sum(h) * 10, den |-> price_count(h) * 10]

TargetPrice(h) ==
  IF price_count(h) = 0
  THEN [num |-> FallbackCents, den |-> 1]
  ELSE [num |-> price_sum(h) * price_multiplier, den |-> price_count(h) * 10]

\* the comparison the wrong way round
ExceedsMaximum_reversed(t) == t.num < max_spot_price * t.den

ExceedsMaximum(t) == t.num > max_spot_price * t.den

\* ---- the final branches of _wait_for_request
\* a _wait_for_request that returns the request whatever its final status
RequestVerdict_any(status) == "return"

RequestVerdict(status) == IF status = FULFILLED THEN "return" ELSE "raise"

\* ---- goal of _stop_instance
\* a goal that takes shutting-down for the end without fast
Goal_lenient(f) == {SHUTTINGDOWN, TERMINATED}

Goal(f) == IF f THEN {SHUTTINGDOWN, TERMINATED} ELSE {TERMINATED}

NoneResult == [ret |-> "None", instance_id |-> NoInstance, image_id |-> NoId]
NoneTriple == [ret |-> "triple", instance_id |-> NoInstance, image_id |-> NoId]
Triple(i, image_id) == [ret |-> "triple", instance_id |-> i, image_id |-> image_id]

\* ---- the dns property
dns == IF instance = NoInstance THEN None ELSE "public_dns_name"

\* ---- get_image
\* s < t for two strings
RECURSIVE StrLess(_, _)
StrLess(s, t) ==
  IF t = <<>> THEN FALSE
  ELSE IF s = <<>> THEN TRUE
  ELSE IF Head(s) # Head(t) THEN Head(s) < Head(t)
  ELSE StrLess(Tail(s), Tail(t))

\* int(s) of a string of digits
RECURSIVE int(_)
int(s) == IF s = <<>> THEN 0 ELSE int(SubSeq(s, 1, Len(s) - 1)) * 10 + (s[Len(s)] - 48)

\* whether int(s) returns: a letter, or no character at all, is a ValueError
IsInt(s) == s # <<>> /\ \A k \in 1..Len(s) : s[k] \in Digits

NoGroup == [none |-> TRUE, text |-> <<>>]
NoInt == [none |-> TRUE, value |-> 0]

\* re.compile(regex).match(location): whether it matches, the number of groups of
\* the pattern, and group(1), which is None for a group that took no part
match(regex, location) ==
  LET rest == IF location = <<>> THEN <<>> ELSE Tail(location)
      starts == location # <<>> /\ <<Head(location)>> = Chr_a
      group1 == IF rest = <<>> THEN NoGroup ELSE [none |-> FALSE, text |-> rest]
  IN CASE regex = RegexGroup ->
            [matched |-> starts /\ rest # <<>>, groups |-> 1, group1 |-> group1]
       [] regex = RegexOptionalGroup ->
            [matched |-> starts, groups |-> 1, group1 |-> group1]
       [] OTHER ->
            [matched |-> starts, groups |-> 0, group1 |-> NoGroup]

\* the loop of lines 256-279 over the images left: level, options, or the
\* exception that went through
RECURSIVE gather(_, _, _)
gather(images, level, options) ==
  IF images = <<>> THEN [error |-> None, level |-> level, options |-> options]
  ELSE LET im == Head(images)
           m == match(valid_ami_location_regex, im.location)
       IN IF im.state # "available" \/ ~m.matched
            THEN gather(Tail(images), level, options)
          ELSE IF level < 2 /\ m.groups = 0
            THEN gather(Tail(images), 2,
                        Append(options, [int_sort |-> NoInt, alpha_sort |-> NoGroup,
                                         image |-> im]))
          ELSE IF level # 0
            THEN gather(Tail(images), level,
                        Append(options,
                               [int_sort |-> NoInt,
                                alpha_sort |-> IF level < 2 THEN m.group1 ELSE NoGroup,
                                image |-> im]))
          ELSE IF m.group1.none
            THEN [error |-> "TypeError", level |-> level, options |-> options]
          ELSE IF IsInt(m.group1.text)
            THEN gather(Tail(images), 0,
                        Append(options,
                               [int_sort |-> [none |-> FALSE, value |-> int(m.group1.text)],
                                alpha_sort |-> m.group1, image |-> im]))
          ELSE gather(Tail(images), 1,
                      Append(options, [int_sort |-> NoInt, alpha_sort |-> m.group1,
                                       image |-> im]))

\* the options of the branch without a regex: every image listed
RECURSIVE listed(_)
listed(images) ==
  IF images = <<>> THEN <<>>
  ELSE <<[int_sort |-> NoInt, alpha_sort |-> NoGroup, image |-> Head(images)]>>
       \o listed(Tail(images))

\* candidate a sorts before candidate b once the first level entries are cut off;
\* None sorts before every number and every string
candidate_less(a, b, level) ==
  LET int_lt == \/ a.int_sort.none /\ ~b.int_sort.none
                \/ ~a.int_sort.none /\ ~b.int_sort.none
                   /\ a.int_sort.value < b.int_sort.value
      alpha_lt == \/ a.alpha_sort.none /\ ~b.alpha_sort.none
                  \/ ~a.alpha_sort.none /\ ~b.alpha_sort.none
                     /\ StrLess(a.alpha_sort.text, b.alpha_sort.text)
      rest_lt == \/ StrLess(a.image.location, b.image.location)
                 \/ a.image.location = b.image.location
                    /\ StrLess(a.image.id, b.image.id)
  IN IF level = 0 /\ a.int_sort # b.int_sort THEN int_lt
     ELSE IF level <= 1 /\ a.alpha_sort # b.alpha_sort THEN alpha_lt
     ELSE rest_lt

\* options.sort()
RECURSIVE insert(_, _, _)
insert(sorted, x, level) ==
  IF sorted = <<>> THEN <<x>>
  ELSE IF candidate_less(x, Head(sorted), level) THEN <<x>> \o sorted
  ELSE <<Head(sorted)>> \o insert(Tail(sorted), x, level)

RECURSIVE sort(_, _)
sort(options, level) ==
  IF options = <<>> THEN <<>>
  ELSE insert(sort(Tail(options), level), Head(options), level)

Raised(kind, calls) == [ret |-> "raise", error |-> kind, image |-> NoImage, calls |-> calls]

\* what get_image() returns or raises
GetImage ==
  IF image # NoImage
    THEN [ret |-> "image", error |-> None, image |-> image, calls |-> <<>>]
  ELSE LET g == IF valid_ami_location_regex # None
                  THEN gather(all_images, 0, <<>>)
                  ELSE [error |-> None, level |-> 2, options |-> listed(all_images)]
           options == sort(g.options, g.level)
       IN IF g.error # None THEN Raised(g.error, <<"get_all_images">>)
          ELSE IF options = <<>> THEN Raised("ValueError", <<"get_all_images">>)
          ELSE [ret |-> "image", error |-> None, image |-> options[Len(options)].image,
                calls |-> <<"get_all_images">>]

\* ---- calls of the scheduler (reactor thread)
start_instance(c) ==
  /\ c = ncalls + 1
  /\ ncalls' = c
  /\ op' = [op EXCEPT ![c] = "start"]
  /\ IF instance # NoInstance
       THEN Raise(c, "ValueError", <<"instance active">>)
       ELSE /\ Goto(c, IF spot_instance THEN "request_spot" ELSE "run")
            /\ UNCHANGED err
  /\ UNCHANGED <<config, launch, storage, shared, ec2, fast, locals, result, log>>

\* stop_instance without its test for None: _stop_instance is handed None
stop_instance_unguarded(c, f) ==
  /\ c = ncalls + 1
  /\ ncalls' = c
  /\ op' = [op EXCEPT ![c] = "stop"]
  /\ fast' = [fast EXCEPT ![c] = f]
  /\ IF instance = NoInstance
       THEN /\ Raise(c, "AttributeError", <<>>)
            /\ Logged(c, IF elastic_ip THEN <<"disassociate_address">> ELSE <<>>)
            /\ UNCHANGED <<shared, stop_inst, result>>
       ELSE /\ stop_inst' = [stop_inst EXCEPT ![c] = instance]
            /\ instance' = NoInstance
            /\ output' = NoInstance
            /\ Goto(c, "refresh")
            /\ UNCHANGED <<inst_state, result, err, log>>
  /\ UNCHANGED <<config, launch, storage, ec2, attempts, request_status, target_price>>

stop_instance(c, f) ==
  /\ c = ncalls + 1
  /\ ncalls' = c
  /\ op' = [op EXCEPT ![c] = "stop"]
  /\ fast' = [fast EXCEPT ![c] = f]
  /\ IF instance = NoInstance
       THEN /\ Return(c, NoneResult)
            /\ UNCHANGED <<shared, stop_inst>>
       ELSE /\ stop_inst' = [stop_inst EXCEPT ![c] = instance]
            /\ instance' = NoInstance
            /\ output' = NoInstance
            /\ Goto(c, "refresh")
            /\ UNCHANGED <<inst_state, result>>
  /\ UNCHANGED <<config, launch, storage, ec2, attempts, request_status, target_price, err, log>>

\* ---- _start_instance
\* the id of the Reservation that image.run returns for call c: "r1", "r2", ...
ReservationId(c) == <<114, 48 + c>>

\* the id of the image that conn.get_image(self.ami) names, or of None
AmiId == IF ami = None THEN NoId ELSE ExplicitImage.id

\* get_image, image.run, the assignment of self.instance and the argument
\* _wait_for_instance is called with: the reservation
run(c) ==
  /\ pc[c] = "run"
  /\ IF GetImage.ret = "raise"
       THEN /\ Raise(c, GetImage.error, <<>>)
            /\ UNCHANGED <<remote, inst_state, instance, log, launch>>
       ELSE /\ remote' = [remote EXCEPT ![c] = PENDING]
            /\ inst_state' = [inst_state EXCEPT ![c] = PENDING]
            /\ instance' = c
            /\ launched' = [launched EXCEPT ![c] = GetImage.image.id]
            /\ wait_image' = [wait_image EXCEPT ![c] = ReservationId(c)]
            /\ Logged(c, <<"run">>)
            /\ Goto(c, "wait")
            /\ UNCHANGED err
  /\ UNCHANGED <<config, storage, output, requests, bids, ncalls, op, fast, locals, result>>

\* _wait_for_instance gave (None, None, None)
raise_failed(c) ==
  /\ pc[c] = "raise_failed"
  /\ IF instance = NoInstance
       THEN Raise(c, "AttributeError", <<>>)
       ELSE Raise(c, "LatentBuildSlaveFailedToSubstantiate",
                  <<instance, inst_state[instance]>>)
  /\ UNCHANGED <<config, launch, storage, shared, ec2, ncalls, op, fast, locals, result, log>>

\* ---- _wait_for_instance
\* a loop that goes on while the instance is shutting down, too
StillPending_lenient(state) == state \in {PENDING, SHUTTINGDOWN}

\* the test of the while loop
StillPending(state) == state = PENDING

\* no error code that the loop goes on after
Tolerated_none(code) == FALSE

\* the error code that the loop goes on after
Tolerated(code) == code = NotFound

\* one pass of the while loop: its test, the sleep and the update
wait(c) ==
  /\ pc[c] = "wait"
  /\ IF instance = NoInstance
       THEN /\ Raise(c, "AttributeError", <<>>)
            /\ UNCHANGED <<inst_state, remote>>
     ELSE IF ~StillPending(inst_state[instance])
       THEN /\ Goto(c, "wait_exit")
            /\ UNCHANGED <<err, inst_state, remote>>
     ELSE \E o \in UpdateOutcomes(instance) :
            /\ remote' = [remote EXCEPT ![instance] = o.now]
            /\ IF o.answer \in {NotFound, OtherError} /\ Tolerated(o.answer)
                 THEN UNCHANGED <<pc, err, inst_state>>
               ELSE IF o.answer \in {NotFound, OtherError}
                 THEN /\ Raise(c, "EC2ResponseError", <<o.answer, "update">>)
                      /\ UNCHANGED inst_state
               ELSE /\ inst_state' = [inst_state EXCEPT ![instance] = o.answer]
                    /\ UNCHANGED <<pc, err>>
  /\ UNCHANGED <<config, launch, storage, instance, output, requests, bids, ncalls, op, fast, locals,
                 result, log>>

\* the test for RUNNING, the console output and the elastic ip
wait_exit(c) ==
  /\ pc[c] = "wait_exit"
  /\ IF instance = NoInstance
       THEN /\ Raise(c, "AttributeError", <<>>)
            /\ UNCHANGED <<result, output, log>>
     ELSE IF inst_state[instance] = RUNNING
       THEN /\ output' = instance
            /\ Logged(c, <<"get_console_output">>
                         \o (IF elastic_ip THEN <<"use_ip">> ELSE <<>>))
            /\ Goto(c, "handle_volumes")
            /\ UNCHANGED <<err, result>>
     ELSE IF spot_instance
       THEN /\ Return(c, NoneTriple)
            /\ UNCHANGED <<err, output, log>>
     ELSE /\ Goto(c, "raise_failed")
          /\ UNCHANGED <<err, result, output, log>>
  /\ UNCHANGED <<config, launch, storage, instance, inst_state, ec2, ncalls, op, fast, locals>>

\* ---- _handle_volumes, create_tags and the return of _wait_for_instance
\* the id EC2 gives the k-th volume that call c creates
VolumeId(c, k) == c * 10 + k

\* where a volume in status s may be by the time it is next looked at
VolumeReach(s) ==
  CASE s = VOLUME_CREATING -> {VOLUME_CREATING, VOLUME_AVAILABLE, VOLUME_ERROR}
    [] s = VOLUME_AVAILABLE -> {VOLUME_AVAILABLE, VOLUME_DELETING}
    [] OTHER -> {s}

\* what get_all_volumes answers for a volume in status s
VolumeOutcomes(s) ==
  {[answer |-> t, now |-> t] : t \in VolumeReach(s)}
  \cup {[answer |-> OtherError, now |-> s]}

\* a loop that is left on any status but creating
VolumeReady_notcreating(status) == status # VOLUME_CREATING

\* the test of the while loop of _create_volumes: status in 'available', which
\* no other status of a volume satisfies
VolumeReady(status) == status = VOLUME_AVAILABLE

\* _attach_volumes for the first declared volume only
declared_attachments_first(i) ==
  [k \in 1..(IF volumes = <<>> THEN 0 ELSE 1) |->
     [volume_id |-> volumes[k].volume_id, instance_id |-> i,
      device_node |-> volumes[k].device_node]]

\* the attach_volume calls of _attach_volumes
declared_attachments(i) ==
  [k \in 1..Len(volumes) |->
     [volume_id |-> volumes[k].volume_id, instance_id |-> i,
      device_node |-> volumes[k].device_node]]

\* _handle_delete_on_term, _attach_volumes, the last get_instance_attribute,
\* create_tags and the return
after_create_volumes(c) ==
  IF instance = NoInstance
    THEN /\ Raise(c, "AttributeError", <<>>)
         /\ UNCHANGED <<log, result, attachments>>
    ELSE /\ Logged(c, (IF delete_vol_term
                         THEN <<"get_instance_attribute">>
                              \o (IF instance_devices # <<>>
                                    THEN <<"modify_instance_attribute">> ELSE <<>>)
                         ELSE <<>>)
                      \o [k \in 1..Len(declared_attachments(instance)) |-> "attach_volume"]
                      \o <<"get_instance_attribute">>
                      \o (IF tags # {} THEN <<"create_tags">> ELSE <<>>))
         /\ attachments' = attachments \o declared_attachments(instance)
         /\ Return(c, Triple(instance, wait_image[c]))
         /\ UNCHANGED err

\* the entry of _handle_volumes
handle_volumes(c) ==
  /\ pc[c] = "handle_volumes"
  /\ IF Len(create_volumes) > 0
       THEN /\ Goto(c, "create_volume")
            /\ UNCHANGED <<err, log, result, attachments>>
       ELSE after_create_volumes(c)
  /\ UNCHANGED <<config, launch, shared, ec2, ncalls, op, fast, locals, created, vol>>

\* conn.create_volume and the first get_all_volumes
create_volume(c) ==
  /\ pc[c] = "create_volume"
  /\ Logged(c, <<"create_volume">>)
  /\ \E o \in VolumeOutcomes(VOLUME_CREATING) :
       /\ created' = [created EXCEPT ![c] = Append(@, o.now)]
       /\ IF o.answer = OtherError
            THEN /\ Raise(c, "EC2ResponseError", <<o.answer, "get_all_volumes">>)
                 /\ UNCHANGED vol
            ELSE /\ vol' = [vol EXCEPT ![c] = o.answer]
                 /\ Goto(c, "wait_volume")
                 /\ UNCHANGED err
  /\ UNCHANGED <<config, launch, shared, ec2, ncalls, op, fast, locals, result, attachments>>

\* one pass of the while loop of _create_volumes, or attach_volume after it
wait_volume(c) ==
  /\ pc[c] = "wait_volume"
  /\ LET k == Len(created[c])
     IN IF VolumeReady(vol[c])
          THEN /\ UNCHANGED vol
               /\ IF instance = NoInstance
                    THEN /\ Raise(c, "AttributeError", <<>>)
                         /\ UNCHANGED <<log, created, attachments>>
                  ELSE /\ Logged(c, <<"attach_volume">>)
                       /\ attachments' =
                            Append(attachments,
                                   [volume_id |-> VolumeId(c, k), instance_id |-> instance,
                                    device_node |-> create_volumes[k].device_node])
                       /\ \E s \in VolumeReach(created[c][k]) :
                            IF s # VOLUME_AVAILABLE
                              THEN /\ Raise(c, "EC2ResponseError",
                                            <<"IncorrectState", "attach_volume">>)
                                   /\ created' = [created EXCEPT ![c][k] = s]
                              ELSE /\ created' = [created EXCEPT ![c][k] = "in-use"]
                                   /\ Goto(c, IF k < Len(create_volumes)
                                                THEN "create_volume" ELSE "finish_volumes")
                                   /\ UNCHANGED err
          ELSE /\ \E o \in VolumeOutcomes(created[c][k]) :
                    /\ created' = [created EXCEPT ![c][k] = o.now]
                    /\ IF o.answer = OtherError
                         THEN /\ Raise(c, "EC2ResponseError",
                                       <<o.answer, "get_all_volumes">>)
                              /\ UNCHANGED vol
                         ELSE /\ vol' = [vol EXCEPT ![c] = o.answer]
                              /\ UNCHANGED <<pc, err>>
               /\ UNCHANGED <<log, attachments>>
  /\ UNCHANGED <<config, launch, shared, ec2, ncalls, op, fast, locals, result>>

\* the rest of _handle_volumes once the volumes are created
finish_volumes(c) ==
  /\ pc[c] = "finish_volumes"
  /\ after_create_volumes(c)
  /\ UNCHANGED <<config, launch, shared, ec2, ncalls, op, fast, locals, created, vol>>

\* ---- _request_spot_instance
\* the price history, the target price and the request
request_spot(c) ==
  /\ pc[c] = "request_spot"
  /\ target_price' = [target_price EXCEPT ![c] = TargetPrice(spot_prices)]
  /\ IF ExceedsMaximum(TargetPrice(spot_prices))
       THEN /\ Raise(c, "LatentBuildSlaveFailedToSubstantiate", <<>>)
            /\ UNCHANGED <<requests, bids, log, launched>>
       ELSE /\ requests' = [requests EXCEPT ![c] = "pending-evaluation"]
            /\ bids' = [bids EXCEPT ![c] = TargetPrice(spot_prices)]
            /\ launched' = [launched EXCEPT ![c] = AmiId]
            /\ Logged(c, <<"request_spot_instances">>)
            /\ Goto(c, "wait_request_first")
            /\ UNCHANGED err
  /\ UNCHANGED <<config, storage, shared, remote, ncalls, op, fast, stop_inst, attempts,
                 request_status, result, wait_image>>

\* get_all_instances for the request's instance, the assignment of self.instance
\* and the argument _wait_for_instance is called with: get_image()
resolve(c) ==
  /\ pc[c] = "resolve"
  /\ \E o \in UpdateOutcomes(c) :
       /\ remote' = [remote EXCEPT ![c] = o.now]
       /\ IF o.answer \in {NotFound, OtherError}
            THEN /\ Raise(c, "EC2ResponseError", <<o.answer, "get_all_instances">>)
                 /\ UNCHANGED <<instance, inst_state, wait_image>>
            ELSE /\ inst_state' = [inst_state EXCEPT ![c] = o.answer]
                 /\ instance' = c
                 /\ IF GetImage.ret = "raise"
                      THEN /\ Raise(c, GetImage.error, <<>>)
                           /\ UNCHANGED wait_image
                      ELSE /\ wait_image' = [wait_image EXCEPT ![c] = GetImage.image.id]
                           /\ Goto(c, "wait")
                           /\ UNCHANGED err
  /\ UNCHANGED <<config, storage, output, requests, bids, ncalls, op, fast, locals, result, log,
                 launched>>

\* ---- _wait_for_request
\* from a status read to the next query, or to the function's end
AfterStatus(c, s) ==
  IF s \in SPOT_REQUEST_PENDING_STATES
    THEN /\ Goto(c, "wait_request_loop")
         /\ UNCHANGED err
  ELSE IF RequestVerdict(s) = "return"
    THEN /\ Goto(c, "resolve")
         /\ UNCHANGED err
  ELSE Raise(c, "LatentBuildSlaveFailedToSubstantiate", <<c, s>>)

\* one pass of the first loop
wait_request_first(c) ==
  /\ pc[c] = "wait_request_first"
  /\ IF attempts[c] < _poll_retry
       THEN \E o \in RequestOutcomes(c, attempts[c] < max_lag) :
              /\ Evaluated(c, o.now)
              /\ IF o.answer = NotFound
                   THEN /\ attempts' = [attempts EXCEPT ![c] = @ + 1]
                        /\ UNCHANGED <<pc, err, request_status>>
                 ELSE IF o.answer = OtherError
                   THEN /\ attempts' = [attempts EXCEPT ![c] = @ + 1]
                        /\ Raise(c, "EC2ResponseError",
                                 <<o.answer, "get_all_spot_instance_requests">>)
                        /\ UNCHANGED request_status
                 ELSE /\ request_status' = [request_status EXCEPT ![c] = o.answer]
                      /\ AfterStatus(c, o.answer)
                      /\ UNCHANGED attempts
       ELSE /\ Raise(c, "UnboundLocalError", <<"request_status">>)
            /\ UNCHANGED <<attempts, request_status, requests, remote>>
  /\ UNCHANGED <<config, launch, storage, shared, bids, ncalls, op, fast, stop_inst, target_price,
                 result, log>>

\* one pass of the second loop
wait_request_loop(c) ==
  /\ pc[c] = "wait_request_loop"
  /\ \E o \in RequestOutcomes(c, TRUE) :
       /\ Evaluated(c, o.now)
       /\ IF o.answer = NotFound
            THEN UNCHANGED <<pc, err, request_status>>
          ELSE IF o.answer = OtherError
            THEN /\ Raise(c, "EC2ResponseError",
                          <<o.answer, "get_all_spot_instance_requests">>)
                 /\ UNCHANGED request_status
            ELSE /\ request_status' = [request_status EXCEPT ![c] = o.answer]
                 /\ AfterStatus(c, o.answer)
  /\ UNCHANGED <<config, launch, storage, shared, bids, ncalls, op, fast, stop_inst, attempts,
                 target_price, result, log>>

\* ---- _stop_instance(instance, fast)
\* disassociate_address and the first instance.update()
refresh(c) ==
  /\ pc[c] = "refresh"
  /\ LET before == IF elastic_ip THEN <<"disassociate_address">> ELSE <<>>
     IN \E o \in UpdateOutcomes(stop_inst[c]) :
          /\ remote' = [remote EXCEPT ![stop_inst[c]] = o.now]
          /\ IF o.answer = NotFound
               THEN /\ Return(c, NoneResult)
                    /\ Logged(c, before \o <<"update-NotFound">>)
                    /\ UNCHANGED <<err, inst_state>>
             ELSE IF o.answer = OtherError
               THEN /\ Raise(c, "EC2ResponseError", <<o.answer, "update">>)
                    /\ Logged(c, before \o <<"update-OtherError">>)
                    /\ UNCHANGED <<result, inst_state>>
             ELSE /\ inst_state' = [inst_state EXCEPT ![stop_inst[c]] = o.answer]
                  /\ Logged(c, before \o <<"update">>)
                  /\ Goto(c, "terminate")
                  /\ UNCHANGED <<err, result>>
  /\ UNCHANGED <<config, launch, storage, instance, output, requests, bids, ncalls, op, fast, locals>>

\* what Instance.terminate() leaves in the object's state: boto refreshes it from
\* the response or leaves it, depending on its version
TerminateStates(old, new) == {old, new}

\* a terminate whatever the state
NeedsTerminate_always(state) == TRUE

\* the test of line 413
NeedsTerminate(state) == state \notin {SHUTTINGDOWN, TERMINATED}

\* instance.terminate() when the state asks for it
terminate(c) ==
  /\ pc[c] = "terminate"
  /\ LET i == stop_inst[c]
         next == IF fast[c] THEN "fast_update" ELSE "stop_wait"
     IN IF ~NeedsTerminate(inst_state[i])
          THEN /\ Goto(c, next)
               /\ UNCHANGED <<err, remote, inst_state, log>>
          ELSE /\ Logged(c, <<"terminate">>)
               /\ \E s \in InstanceReach(remote[i]) :
                    IF s = GONE
                      THEN /\ remote' = [remote EXCEPT ![i] = s]
                           /\ Raise(c, "EC2ResponseError", <<NotFound, "terminate">>)
                           /\ UNCHANGED inst_state
                      ELSE LET after == IF s \in {PENDING, RUNNING}
                                          THEN SHUTTINGDOWN ELSE s
                           IN /\ remote' = [remote EXCEPT ![i] = after]
                              /\ \E t \in TerminateStates(inst_state[i], after) :
                                   inst_state' = [inst_state EXCEPT ![i] = t]
                              /\ Goto(c, next)
                              /\ UNCHANGED err
  /\ UNCHANGED <<config, launch, storage, instance, output, requests, bids, ncalls, op, fast, locals,
                 result>>

\* the instance.update() of the fast branch
fast_update(c) ==
  /\ pc[c] = "fast_update"
  /\ \E o \in UpdateOutcomes(stop_inst[c]) :
       /\ remote' = [remote EXCEPT ![stop_inst[c]] = o.now]
       /\ IF o.answer \in {NotFound, OtherError}
            THEN /\ Raise(c, "EC2ResponseError", <<o.answer, "update">>)
                 /\ UNCHANGED inst_state
            ELSE /\ inst_state' = [inst_state EXCEPT ![stop_inst[c]] = o.answer]
                 /\ Goto(c, "stop_wait")
                 /\ UNCHANGED err
  /\ UNCHANGED <<config, launch, storage, instance, output, requests, bids, ncalls, op, fast, locals,
                 result, log>>

\* one pass of the while loop, or its end
stop_wait(c) ==
  /\ pc[c] = "stop_wait"
  /\ IF inst_state[stop_inst[c]] \in Goal(fast[c])
       THEN /\ Return(c, NoneResult)
            /\ UNCHANGED <<err, inst_state, remote>>
       ELSE \E o \in UpdateOutcomes(stop_inst[c]) :
              /\ remote' = [remote EXCEPT ![stop_inst[c]] = o.now]
              /\ IF o.answer \in {NotFound, OtherError}
                   THEN /\ Raise(c, "EC2ResponseError", <<o.answer, "update">>)
                        /\ UNCHANGED <<result, inst_state>>
                   ELSE /\ inst_state' = [inst_state EXCEPT ![stop_inst[c]] = o.answer]
                        /\ UNCHANGED <<pc, err, result>>
  /\ UNCHANGED <<config, launch, storage, instance, output, requests, bids, ncalls, op, fast, locals, log>>

\* ---- the controller under any scheduler
StartStep(c) ==
  \/ run(c)
  \/ raise_failed(c)
  \/ wait(c)
  \/ wait_exit(c)
  \/ handle_volumes(c)
  \/ request_spot(c)
  \/ resolve(c)
  \/ wait_request_first(c)
  \/ wait_request_loop(c)

StopStep(c) ==
  \/ refresh(c)
  \/ terminate(c)
  \/ fast_update(c)
  \/ stop_wait(c)

Next ==
  \/ \E c \in 1..MaxCalls : start_instance(c)
  \/ \E c \in 1..MaxCalls, f \in BOOLEAN : stop_instance(c, f)
  \/ \E c \in Calls : StartStep(c)
  \/ \E c \in Calls : StopStep(c)

Spec == Init /\ [][Next]_vars

\* ---- any scheduler again, with one more call: two starts and a stop, or a start
\* between a stop and its end, take three calls
RaceNext ==
  \/ \E c \in Calls : start_instance(c)
  \/ \E c \in Calls, f \in BOOLEAN : stop_instance(c, f)
  \/ \E c \in Calls : StartStep(c)
  \/ \E c \in Calls : StopStep(c)

RaceSpec == Init /\ [][RaceNext]_vars

\* ---- one start_instance and its deferred work, nothing else
StartNext ==
  \/ ncalls = 0 /\ start_instance(1)
  \/ \E c \in Calls : StartStep(c)

StartSpec == StartInit /\ [][StartNext]_vars

\* the pool thread of a start keeps running: it takes its next step
FairStartSpec == StartSpec /\ \A c \in Calls : WF_vars(StartStep(c))

\* ---- one start_instance of a controller with volumes, tags and an elastic ip
VolumeStep(c) ==
  \/ create_volume(c)
  \/ wait_volume(c)
  \/ finish_volumes(c)

PostNext ==
  \/ ncalls = 0 /\ start_instance(1)
  \/ \E c \in Calls : StartStep(c)
  \/ \E c \in Calls : VolumeStep(c)

PostSpec == PostInit /\ [][PostNext]_vars

\* ---- create_block_device_mapping
\* BlockDeviceType(**properties): a property not given keeps the default of boto
BlockDeviceType(properties) ==
  [delete_on_termination |->
     IF "delete_on_termination" \in DOMAIN properties
       THEN properties["delete_on_termination"] ELSE FALSE,
   size |-> IF "size" \in DOMAIN properties THEN properties["size"] ELSE None,
   volume_type |->
     IF "volume_type" \in DOMAIN properties THEN properties["volume_type"] ELSE None]

\* the properties handed on as they were given
modified_device_properties_asgiven(device_properties) == device_properties

modified_device_properties(device_properties) ==
  IF "delete_on_termination" \in DOMAIN device_properties
    THEN device_properties
    ELSE [n \in DOMAIN device_properties \cup {"delete_on_termination"} |->
            IF n = "delete_on_termination" THEN TRUE ELSE device_properties[n]]

CreateBlockDeviceMapping(definitions) ==
  IF ~definitions.given \/ DOMAIN definitions.entries = {}
    THEN NoMapping
    ELSE [given |-> TRUE,
          entries |-> [d \in DOMAIN definitions.entries |->
                         BlockDeviceType(modified_device_properties(definitions.entries[d]))]]

create_block_device_mapping ==
  /\ outcome.ret = "unset"
  /\ block_device_map' = CreateBlockDeviceMapping(mapping_definitions)
  /\ outcome' = [outcome EXCEPT !.ret = "mapping"]
  /\ UNCHANGED <<spot_instance, elastic_ip, max_spot_price, price_multiplier,
                 spot_prices, max_lag, init_args, ami, valid_ami_location_regex,
                 all_images, image, mapping_definitions, declared, lifecycle>>

MappingNext == create_block_device_mapping

MappingSpec == MappingInit /\ [][MappingNext]_vars

\* ---- __init__
\* either an ami or constraints, whichever the test of line 82 takes
ImageChoiceValid_either(a) ==
  (a.ami # None) \/ (a.valid_ami_owners # None \/ a.valid_ami_location_regex # None)

ImageChoiceValid(a) ==
  (a.ami # None) # (a.valid_ami_owners # None \/ a.valid_ami_location_regex # None)

\* the first exception of the tests of lines 78-147, None when they all pass
ArgumentError(a) ==
  IF a.security_name # None /\ a.subnet_id # None THEN "ValueError"
  ELSE IF ~ImageChoiceValid(a) THEN "ValueError"
  ELSE IF a.valid_ami_owners = "not ints" THEN "ValueError"
  ELSE IF a.valid_ami_location_regex = NotAString THEN "ValueError"
  ELSE IF a.valid_ami_location_regex = BadRegex THEN "re.error"
  ELSE IF a.identifier = None /\ a.secret_identifier # None THEN "AssertionError"
  ELSE IF a.identifier # None
          /\ (a.aws_id_file_path # None \/ a.secret_identifier = None)
    THEN "AssertionError"
  ELSE None

\* lines 75-215: the tests, the attributes, the connection, the key pair and the
\* security group
__init__ ==
  /\ outcome.ret = "unset"
  /\ LET a == init_args
         connect == IF a.region # None THEN <<"regions">> ELSE <<>>
         group == IF a.security_name = None /\ a.subnet_id = None
                    THEN "latent_buildbot_slave" ELSE a.security_name
     IN IF ArgumentError(a) # None
          THEN /\ outcome' = Raised(ArgumentError(a), <<>>)
               /\ UNCHANGED <<ami, valid_ami_location_regex>>
          ELSE /\ ami' = a.ami
               /\ valid_ami_location_regex' = a.valid_ami_location_regex
               /\ IF a.region = "unknown"
                    THEN outcome' = Raised("ValueError", connect)
                    ELSE \E key \in {"found", "InvalidKeyPair.NotFound", "AuthFailure"},
                            sg \in {"found", "InvalidGroup.NotFound", "error"} :
                           LET keys == connect \o <<"get_all_key_pairs">> \o
                                       (IF key = "InvalidKeyPair.NotFound"
                                          THEN <<"create_key_pair">> ELSE <<>>)
                               groups == IF group = None THEN keys
                                         ELSE keys \o <<"get_all_security_groups">> \o
                                              (IF sg = "InvalidGroup.NotFound"
                                                 THEN <<"create_security_group">>
                                                 ELSE <<>>)
                           IN IF key = "AuthFailure"
                                THEN outcome' = Raised("EC2ResponseError", keys)
                              ELSE IF group # None /\ sg = "error"
                                THEN outcome' = Raised("EC2ResponseError", groups)
                              ELSE outcome' = [ret |-> "connected", error |-> None,
                                               image |-> NoImage, calls |-> groups]
  /\ UNCHANGED <<spot_instance, elastic_ip, max_spot_price, price_multiplier,
                 spot_prices, max_lag, init_args, all_images, image,
                 mapping_definitions, block_device_map, declared, lifecycle>>

\* lines 217-233: the image, the elastic ip and the block device map
__init__image ==
  /\ outcome.ret = "connected"
  /\ LET addresses == IF elastic_ip THEN <<"get_all_addresses">> ELSE <<>>
     IN IF ami # None
          THEN \E known \in BOOLEAN :
                 IF known
                   THEN /\ image' = ExplicitImage
                        /\ block_device_map' = CreateBlockDeviceMapping(mapping_definitions)
                        /\ outcome' = [ret |-> "constructed", error |-> None,
                                       image |-> ExplicitImage,
                                       calls |-> outcome.calls \o <<"get_image">>
                                                 \o addresses]
                   ELSE /\ outcome' = Raised("EC2ResponseError",
                                             outcome.calls \o <<"get_image">>)
                        /\ UNCHANGED <<image, block_device_map>>
        ELSE IF GetImage.ret = "raise"
          THEN /\ outcome' = Raised(GetImage.error, outcome.calls \o GetImage.calls)
               /\ UNCHANGED <<image, block_device_map>>
        ELSE /\ block_device_map' = CreateBlockDeviceMapping(mapping_definitions)
             /\ outcome' = [ret |-> "constructed", error |-> None,
                            image |-> GetImage.image,
                            calls |-> outcome.calls \o GetImage.calls \o addresses]
             /\ UNCHANGED image
  /\ UNCHANGED <<spot_instance, elastic_ip, max_spot_price, price_multiplier,
                 spot_prices, max_lag, init_args, ami, valid_ami_location_regex,
                 all_images, mapping_definitions, declared, lifecycle>>

InitNext == __init__ \/ __init__image

InitSpec == ArgsInit /\ [][InitNext]_vars

\* ---- one call of get_image on a constructed controller
get_image ==
  /\ outcome.ret = "unset"
  /\ outcome' = GetImage
  /\ UNCHANGED <<spot_instance, elastic_ip, max_spot_price, price_multiplier,
                 spot_prices, max_lag, init_args, ami, valid_ami_location_regex,
                 all_images, image, mapping_definitions, block_device_map, declared,
                 lifecycle>>

ImageNext == get_image

ImageSpec == ImageInit /\ [][ImageNext]_vars

\* ---- one start_instance of a controller with an explicit image or with
\* constraints, on either market
\* the listings of get_all_images that a start meets: at most one image
ShortLists == {l \in ImageLists : Len(l) <= 1}

LaunchInit ==
  /\ spot_instance \in BOOLEAN
  /\ elastic_ip = FALSE
  /\ max_spot_price = 160
  /\ price_multiplier = 12
  /\ spot_prices = <<>>
  /\ max_lag = 0
  /\ init_args = DefaultArgs
  /\ \/ /\ ami = "ami"
        /\ image = ExplicitImage
        /\ valid_ami_location_regex = None
        /\ all_images = <<>>
     \/ /\ ami = None
        /\ image = NoImage
        /\ valid_ami_location_regex \in {None, RegexGroup}
        /\ all_images \in ShortLists
  /\ mapping_definitions = NoMapping
  /\ block_device_map = NoMapping
  /\ outcome = NoOutcome
  /\ NothingDeclared
  /\ Constructed

LaunchSpec == LaunchInit /\ [][StartNext]_vars

\* ---- a scheduler that waits for the end of each call before it makes the next
Idle == \A c \in Calls : pc[c] \in {"uncalled", "done", "failed"}

SeqInit ==
  /\ spot_instance \in BOOLEAN
  /\ elastic_ip = FALSE
  /\ max_spot_price = 160
  /\ price_multiplier = 12
  /\ spot_prices = <<>>
  /\ max_lag \in IF spot_instance THEN {0, _poll_retry} ELSE {0}
  /\ ExplicitAmi
  /\ NothingDeclared
  /\ Constructed

\* EC2 fulfils a spot request that is still open after _request_spot_instance
\* ended: nothing in it cancels the request, and its instance is launched
fulfil(r) ==
  /\ pc[r] = "failed"
  /\ requests[r] \in SPOT_REQUEST_PENDING_STATES
  /\ Evaluated(r, FULFILLED)
  /\ UNCHANGED <<config, shared, bids, ncalls, op, fast, pc, locals, result, err, log,
                 storage, launch>>

SeqNext ==
  \/ \E c \in 1..MaxCalls : Idle /\ start_instance(c)
  \/ \E c \in 1..MaxCalls, f \in BOOLEAN : Idle /\ stop_instance(c, f)
  \/ \E c \in Calls : StartStep(c)
  \/ \E c \in Calls : StopStep(c)
  \/ \E r \in Calls : fulfil(r)

SeqSpec == SeqInit /\ [][SeqNext]_vars

\* ---- what the claims speak of
InProgress(c) == pc[c] \notin {"uncalled", "done", "failed"}
Finished(c) == pc[c] \in {"done", "failed"}
SubstantiationFailed(args) ==
  [kind |-> "LatentBuildSlaveFailedToSubstantiate", args |-> args]

\* ---- C1
\* C1: a start_instance called right after another start_instance whose deferred
\* work has not ended is rejected with ValueError('instance active') and makes no
\* remote call, so no second launch is issued.
C1_SecondStartRejected ==
  \A c \in 1..MaxCalls :
    (op[c] = "start" /\ op[c + 1] = "start" /\ InProgress(c))
      => (err[c + 1].kind = "ValueError" /\ log[c + 1] = <<>>)

\* ---- C2
\* C2: the deferred work of a start_instance and the deferred work of a
\* stop_instance are never in progress at the same time.
C2_StartStopSerialized ==
  \A c \in Calls, d \in Calls :
    ~(op[c] = "start" /\ op[d] = "stop" /\ InProgress(c) /\ InProgress(d))

\* ---- C3
\* C3: a stop_instance called while self.instance is None succeeds at once (its
\* deferred has fired with None), makes no remote call and changes nothing of the
\* controller, of EC2 or of the other calls; this holds of every such call, so of
\* any number of them in a row.
C3_StopWithoutInstanceIsNoOp ==
  [][\A c \in Calls :
       (ncalls = c - 1 /\ ncalls' = c /\ op'[c] = "stop" /\ instance = NoInstance)
         => /\ pc'[c] = "done"
            /\ result'[c] = NoneResult
            /\ err'[c] = NoError
            /\ log' = log
            /\ UNCHANGED <<shared, ec2, stop_inst>>
            /\ \A d \in Calls \ {c} : pc'[d] = pc[d]]_vars

\* two stop_instance calls in a row, both with no instance owned
C3_Witness ==
  \E c \in 1..MaxCalls :
    /\ c >= 2
    /\ \A d \in {c - 1, c} :
         op[d] = "stop" /\ stop_inst[d] = NoInstance /\ pc[d] = "done"

\* ---- C4
\* C4: on the spot path, a start whose target price is strictly above
\* max_spot_price fails with LatentBuildSlaveFailedToSubstantiate(), has issued no
\* spot request and made no other remote call, and has acquired no instance; and
\* every spot request issued carries a bid that is at most max_spot_price.
C4_BidAboveCeilingFails ==
  \A c \in Calls :
    /\ (op[c] = "start" /\ spot_instance /\ target_price[c] # NoBid
          /\ target_price[c].num > max_spot_price * target_price[c].den)
         => /\ pc[c] = "failed"
            /\ err[c] = SubstantiationFailed(<<>>)
            /\ requests[c] = ABSENT
            /\ log[c] = <<>>
            /\ inst_state[c] = None
            /\ instance # c
    /\ requests[c] # ABSENT => bids[c].num <= max_spot_price * bids[c].den

\* ceiling 1.00, one price of 1.25 at multiplier 1.2: target 1.50, the start failed
C4_Witness ==
  \E c \in Calls :
    /\ max_spot_price = 100
    /\ target_price[c] = [num |-> 1500, den |-> 10]
    /\ pc[c] = "failed"

\* ---- C5
\* C5: the bid of every spot request issued is the average price of the history
\* entries of the configured instance type times the price multiplier, and it is
\* the fallback 0.02 when the history holds no entry of that type.
RECURSIVE C5_Sum(_)
C5_Sum(S) ==
  IF S = {} THEN 0
  ELSE LET k == CHOOSE k \in S : TRUE
       IN spot_prices[k].price + C5_Sum(S \ {k})

C5_BidIsAverageTimesMultiplier ==
  \A c \in Calls :
    requests[c] # ABSENT =>
      LET own == {k \in 1..Len(spot_prices) :
                    spot_prices[k].instance_type = instance_type}
      IN IF own = {}
           THEN bids[c].num = 2 * bids[c].den
           ELSE bids[c].num * Cardinality(own) * 10
                  = C5_Sum(own) * price_multiplier * bids[c].den

\* a request issued at the average of two different prices, times 1.2
C5_Witness ==
  \E c \in Calls :
    /\ requests[c] # ABSENT
    /\ price_multiplier = 12
    /\ Len(spot_prices) = 2
    /\ price_count(spot_prices) = 2
    /\ spot_prices[1].price # spot_prices[2].price

\* ---- C6
\* C6: a start whose instance was seen to leave pending in a status other than
\* running ends by failing with LatentBuildSlaveFailedToSubstantiate(instance id,
\* state); it does not complete normally.
C6_NotRunningFails ==
  \A c \in Calls :
    (op[c] = "start" /\ Finished(c) /\ inst_state[c] \in {SHUTTINGDOWN, TERMINATED})
      => (pc[c] = "failed" /\ err[c] = SubstantiationFailed(<<c, inst_state[c]>>))

\* ---- C7
\* C7: on the spot path the Instance object of the request's instance exists, and
\* self.instance refers to it, only once the start has read the status fulfilled;
\* a start that has read a status that is neither pending nor fulfilled has failed
\* with LatentBuildSlaveFailedToSubstantiate(request id, status) and has acquired
\* no instance.
C7_FulfilledBeforeHandle ==
  \A c \in Calls :
    /\ (spot_instance /\ (inst_state[c] # None \/ instance = c))
         => request_status[c] = FULFILLED
    /\ (request_status[c] \notin ({None, FULFILLED} \cup SPOT_REQUEST_PENDING_STATES))
         => /\ pc[c] = "failed"
            /\ err[c] = SubstantiationFailed(<<c, request_status[c]>>)
            /\ inst_state[c] = None
            /\ instance # c

\* a start that failed on price-too-low while another call's instance is owned or not
C7_Witness ==
  \E c \in Calls : request_status[c] = PRICE_TOO_LOW /\ pc[c] = "failed"

\* ---- C8
C8_TerminalSet(f) == IF f THEN {SHUTTINGDOWN, TERMINATED} ELSE {TERMINATED}
C8_Returned(c) == op[c] = "stop" /\ stop_inst[c] # NoInstance /\ pc[c] = "done"
C8_UnknownAtRefresh(c) ==
  log[c] # <<>> /\ log[c][Len(log[c])] = "update-NotFound"

\* C8 as stated: the deferred work of stop_instance(fast) returns normally only
\* with the instance's state in {shutting-down, terminated} when fast, in
\* {terminated} otherwise.
C8_ReturnsOnlyOnTerminalStatus ==
  \A c \in Calls :
    C8_Returned(c) => inst_state[stop_inst[c]] \in C8_TerminalSet(fast[c])

\* C8 amended: the deferred work of stop_instance(fast) returns normally only with
\* the instance's state in its terminal set, or when the first refresh answered
\* that the instance is unknown; with fast it leaves the wait on shutting-down at
\* once and without another query, without fast it does not return on
\* shutting-down.
C8_ReturnsOnTerminalOrUnknown ==
  /\ [](\A c \in Calls :
          C8_Returned(c) =>
            \/ C8_UnknownAtRefresh(c)
            \/ inst_state[stop_inst[c]] \in C8_TerminalSet(fast[c]))
  /\ [][\A c \in Calls :
          (pc[c] = "stop_wait" /\ pc'[c] # "stop_wait" /\ fast[c]
             /\ inst_state[stop_inst[c]] = SHUTTINGDOWN)
            => (pc'[c] = "done" /\ UNCHANGED <<remote, inst_state>>)]_vars
  /\ [][\A c \in Calls :
          (pc[c] = "stop_wait" /\ ~fast[c]
             /\ inst_state[stop_inst[c]] = SHUTTINGDOWN)
            => pc'[c] # "done"]_vars

\* a fast stop that returned on shutting-down, and the instance not yet terminated
C8_Witness ==
  \E c \in Calls :
    /\ C8_Returned(c)
    /\ fast[c]
    /\ ~C8_UnknownAtRefresh(c)
    /\ inst_state[stop_inst[c]] = SHUTTINGDOWN
    /\ remote[stop_inst[c]] = SHUTTINGDOWN

\* ---- C9
\* C9: no status query of _stop_instance that is answered not-found makes the
\* stop fail.
C9_NotFoundNeverFailsStop ==
  \A c \in Calls :
    op[c] = "stop" =>
      ~(pc[c] = "failed"
        /\ err[c] = [kind |-> "EC2ResponseError", args |-> <<NotFound, "update">>])

\* ---- C10
\* C10: once a stop_instance on an owned instance has returned, and no
\* start_instance was called after it, self.instance is None: dns is None and a
\* start_instance would pass its test.
C10_StoppedMeansNoHandle ==
  \A c \in Calls :
    (C8_Returned(c) /\ \A d \in Calls : d > c => op[d] # "start")
      => (instance = NoInstance /\ dns = None)

\* ---- C11
C11_Range(f) == {f[k] : k \in DOMAIN f}

C11_Candidates ==
  IF valid_ami_location_regex = None THEN C11_Range(all_images)
  ELSE {im \in C11_Range(all_images) :
          im.state = "available" /\ match(valid_ami_location_regex, im.location).matched}

C11_Group(im) == match(valid_ami_location_regex, im.location).group1
C11_HasGroup == valid_ami_location_regex \in {RegexGroup, RegexOptionalGroup}
C11_Numeric ==
  C11_HasGroup /\ \A im \in C11_Candidates :
                    ~C11_Group(im).none /\ IsInt(C11_Group(im).text)

\* a is before b in the ascending order (sort key, location, identifier)
C11_Before(a, b) ==
  LET ka == C11_Group(a).text
      kb == C11_Group(b).text
      by_location == \/ StrLess(a.location, b.location)
                     \/ a.location = b.location /\ StrLess(a.id, b.id)
  IN IF ~C11_HasGroup THEN by_location
     ELSE IF C11_Numeric
       THEN IF int(ka) # int(kb) THEN int(ka) < int(kb) ELSE by_location
     ELSE IF ka # kb THEN StrLess(ka, kb) ELSE by_location

\* C11: get_image with constraints returns the candidate that every other
\* candidate is before in the ascending order (sort key, location, identifier),
\* the key being numeric when the first group of every candidate is an integer,
\* lexical otherwise and absent without a group; the winner depends on the set of
\* candidates only, not on the order EC2 lists them in; with no candidate it
\* raises ValueError.
C11_WinnerIsMaximum ==
  (outcome.ret # "unset" /\ image = NoImage) =>
    IF C11_Candidates = {}
      THEN outcome.ret = "raise" /\ outcome.error = "ValueError"
      ELSE /\ outcome.ret = "image"
           /\ outcome.image \in C11_Candidates
           /\ \A im \in C11_Candidates \ {outcome.image} : C11_Before(im, outcome.image)

\* ---- C12
C12_ExplicitImage == init_args.ami # None
C12_Constraints ==
  init_args.valid_ami_owners # None \/ init_args.valid_ami_location_regex # None

\* C12: __init__ goes on to its remote calls, and so constructs a controller,
\* only when exactly one of an explicit ami and selection constraints (owners,
\* location regex or both) is given; with both or with neither it raises
\* ValueError before any remote call.
C12_ExactlyOneImageSource ==
  /\ (outcome.ret \in {"connected", "constructed"} \/ outcome.calls # <<>>)
       => (C12_ExplicitImage /\ ~C12_Constraints) \/ (~C12_ExplicitImage /\ C12_Constraints)
  /\ (outcome.ret # "unset" /\ (C12_ExplicitImage <=> C12_Constraints))
       => outcome = Raised("ValueError", <<>>)

\* a construction with an ami and a location regex was rejected
C12_Witness ==
  /\ outcome.ret = "raise"
  /\ init_args.ami # None
  /\ init_args.valid_ami_location_regex = RegexGroup
  /\ init_args.security_name = None

\* ---- C13
\* C13: every entry of the block device mapping built has delete_on_termination
\* true when the definition left it out and the definition's value, false
\* included, when it gave one; size and volume_type are the definition's, and
\* absent when the definition left them out; the devices are the definition's.
C13_DeleteOnTerminationDefault ==
  (outcome.ret = "mapping" /\ mapping_definitions.given
     /\ DOMAIN mapping_definitions.entries # {})
    => /\ block_device_map.given
       /\ DOMAIN block_device_map.entries = DOMAIN mapping_definitions.entries
       /\ \A d \in DOMAIN mapping_definitions.entries :
            LET given == mapping_definitions.entries[d]
                built == block_device_map.entries[d]
            IN /\ built.delete_on_termination =
                    IF "delete_on_termination" \in DOMAIN given
                      THEN given["delete_on_termination"] ELSE TRUE
               /\ built.size = IF "size" \in DOMAIN given THEN given["size"] ELSE None
               /\ built.volume_type =
                    IF "volume_type" \in DOMAIN given THEN given["volume_type"] ELSE None

\* one device defined without delete_on_termination, the other with false
C13_Witness ==
  /\ outcome.ret = "mapping"
  /\ DOMAIN mapping_definitions.entries = Devices
  /\ "delete_on_termination" \notin DOMAIN mapping_definitions.entries["/dev/sda1"]
  /\ "delete_on_termination" \in DOMAIN mapping_definitions.entries["/dev/sdb"]
  /\ ~mapping_definitions.entries["/dev/sdb"]["delete_on_termination"]
  /\ block_device_map.entries["/dev/sda1"].delete_on_termination
  /\ ~block_device_map.entries["/dev/sdb"].delete_on_termination

\* ---- C14
C14_Succeeded(c) ==
  op[c] = "start" /\ pc[c] = "done" /\ result[c].instance_id # NoInstance
C14_Declared(j) == \E k \in 1..Len(volumes) : attachments[j].volume_id = volumes[k].volume_id
C14_Count(c, name) == Cardinality({j \in 1..Len(log[c]) : log[c][j] = name})

\* C14: once a start has succeeded, every volume of self.volumes has been
\* attached exactly once, to its declared device and to the instance the start
\* returned; the attach calls of the start are as many as the volumes declared
\* and created, so no volume was attached twice; and a volume of self.volumes is
\* only ever attached to an instance whose state was seen running.
C14_DeclaredVolumesAttachedOnce ==
  /\ \A c \in Calls :
       C14_Succeeded(c) =>
         /\ \A k \in 1..Len(volumes) :
              /\ Cardinality({j \in 1..Len(attachments) :
                               attachments[j].volume_id = volumes[k].volume_id}) = 1
              /\ \E j \in 1..Len(attachments) :
                   attachments[j] = [volume_id |-> volumes[k].volume_id,
                                     instance_id |-> result[c].instance_id,
                                     device_node |-> volumes[k].device_node]
         /\ C14_Count(c, "attach_volume") = Len(volumes) + Len(create_volumes)
  /\ \A j \in 1..Len(attachments) :
       C14_Declared(j) => inst_state[attachments[j].instance_id] = RUNNING

\* two declared volumes, both attached by a start that succeeded
C14_Witness ==
  \E c \in Calls :
    /\ C14_Succeeded(c)
    /\ Len(volumes) = 2
    /\ Cardinality({j \in 1..Len(attachments) : C14_Declared(j)}) = 2

\* ---- C15
\* C15: a start whose spot request was answered not-found as often as the
\* ceiling _poll_retry allows ends by failing with the error of the remote API.
C15_CeilingFailsWithRemoteError ==
  \A c \in Calls :
    (attempts[c] >= _poll_retry /\ Finished(c))
      => (pc[c] = "failed" /\ err[c].kind = "EC2ResponseError")

\* ---- C16
\* C16: _wait_for_instance never fails on a not-found answer: while the instance
\* is unknown to EC2 its state stays pending and the wait goes on; the wait fails
\* only on another error of a status query, and that error is what the start ends
\* with.
C16_NotFoundRetriedOtherErrorFatal ==
  /\ [](\A c \in Calls :
          /\ (pc[c] = "wait" /\ remote[c] = GONE) => inst_state[c] = PENDING
          /\ (op[c] = "start" /\ pc[c] = "failed" /\ err[c].kind = "EC2ResponseError"
                /\ err[c].args[2] = "update")
               => err[c].args[1] = OtherError)
  /\ [][\A c \in Calls :
          (pc[c] = "wait" /\ pc'[c] # "wait" /\ StillPending(inst_state[c]))
            => /\ pc'[c] = "failed"
               /\ err'[c] = [kind |-> "EC2ResponseError", args |-> <<OtherError, "update">>]
               /\ inst_state'[c] = inst_state[c]]_vars

\* a wait still going on after EC2 answered that the instance is unknown
C16_Witness ==
  \E c \in Calls : pc[c] = "wait" /\ remote[c] = GONE /\ inst_state[c] = PENDING

\* ---- C17
C17_PastTheWait(c) ==
  pc[c] \in {"wait_exit", "raise_failed", "handle_volumes", "create_volume",
             "wait_volume", "finish_volumes", "done"}

\* C17: _wait_for_instance is left for its end only with a state read that is
\* not pending, and while the state read is pending (a not-found answer leaves it
\* so) it is left only by an error; once a state read is not pending the wait is
\* left without another query, and under a thread that keeps running it is left.
C17_WaitEndsWhenNotPending ==
  /\ [](\A c \in Calls :
          (op[c] = "start" /\ C17_PastTheWait(c) /\ inst_state[c] # None)
            => inst_state[c] # PENDING)
  /\ [][\A c \in Calls :
          (pc[c] = "wait" /\ inst_state[c] = PENDING /\ pc'[c] # "wait")
            => pc'[c] = "failed"]_vars
  /\ [][\A c \in Calls :
          (pc[c] = "wait" /\ inst_state[c] # PENDING)
            => (pc'[c] = "wait_exit" /\ UNCHANGED <<remote, inst_state>>)]_vars
  /\ \A c \in Calls : (pc[c] = "wait" /\ inst_state[c] # PENDING) ~> (pc[c] # "wait")

\* a wait that ended on terminated, the instance never seen running
C17_Witness ==
  \E c \in Calls : pc[c] = "wait_exit" /\ inst_state[c] = TERMINATED

\* ---- C18
C18_Positions(c, name) == {j \in 1..Len(log[c]) : log[c][j] = name}

\* C18: in the deferred work of a stop_instance on an owned instance,
\* disassociate_address is called if and only if an elastic ip is configured, and
\* then before the first update and before terminate; terminate is called at most
\* once, and the test of line 413 calls it exactly when the state of the
\* instance is neither shutting-down nor terminated.
C18_DisassociateFirstTerminateOnce ==
  /\ [](\A c \in Calls :
          (op[c] = "stop" /\ stop_inst[c] # NoInstance /\ log[c] # <<>>)
            => /\ C18_Positions(c, "disassociate_address")
                    = IF elastic_ip THEN {1} ELSE {}
               /\ Cardinality(C18_Positions(c, "terminate")) <= 1
               /\ \A j \in C18_Positions(c, "terminate") :
                    /\ j > 1
                    /\ log[c][j - 1] = "update")
  /\ [][\A c \in Calls :
          (pc[c] = "terminate" /\ pc'[c] # "terminate")
            => (log'[c] = Append(log[c], "terminate")
                  <=> inst_state[stop_inst[c]] \notin {SHUTTINGDOWN, TERMINATED})]_vars
  /\ [][\A c \in Calls :
          (op[c] = "stop" /\ pc[c] # "terminate") => log'[c] # Append(log[c], "terminate")]_vars

\* a stop that disassociated the elastic ip, refreshed the state and terminated
C18_Witness ==
  \E c \in Calls :
    elastic_ip /\ log[c] = <<"disassociate_address", "update", "terminate">>

\* ---- C19
C19_Created(j) == attachments[j].volume_id < 100

\* C19: the volume a start created is attached only in a step that follows a
\* status read of available; while the status read is anything else the volume is
\* not attached and the loop is left only by a failed status query, which ends
\* the start with that error.
C19_AttachOnlyAfterAvailable ==
  /\ [](\A c \in Calls :
          (pc[c] = "wait_volume" /\ vol[c] # VOLUME_AVAILABLE)
            => ~\E j \in 1..Len(attachments) :
                  attachments[j].volume_id = VolumeId(c, Len(created[c])))
  /\ [][\A c \in Calls :
          (pc[c] \in {"create_volume", "wait_volume"}
             /\ Len(attachments') > Len(attachments))
            => /\ pc[c] = "wait_volume"
               /\ vol[c] = VOLUME_AVAILABLE
               /\ attachments' =
                    Append(attachments,
                           [volume_id |-> VolumeId(c, Len(created[c])),
                            instance_id |-> instance,
                            device_node |-> create_volumes[Len(created[c])].device_node])]_vars
  /\ [][\A c \in Calls :
          (pc[c] = "wait_volume" /\ vol[c] # VOLUME_AVAILABLE /\ pc'[c] # "wait_volume")
            => /\ pc'[c] = "failed"
               /\ err'[c] = [kind |-> "EC2ResponseError",
                             args |-> <<OtherError, "get_all_volumes">>]]_vars

\* two volumes created, each attached after it was seen available
C19_Witness ==
  \E c \in Calls :
    /\ pc[c] = "done"
    /\ Len(created[c]) = 2
    /\ Cardinality({j \in 1..Len(attachments) : C19_Created(j)}) = 2

\* ---- C20
\* C20: in a start that succeeded, the volumes are created and attached before
\* the elastic ip is associated, and the elastic ip is associated before the tags
\* are applied.
C20_VolumesThenAddressThenTags ==
  \A c \in Calls :
    C14_Succeeded(c) =>
      \A i \in 1..Len(log[c]), j \in 1..Len(log[c]) :
        /\ (log[c][i] \in {"create_volume", "attach_volume"} /\ log[c][j] = "use_ip")
             => i < j
        /\ (log[c][i] = "use_ip" /\ log[c][j] = "create_tags") => i < j

\* ---- C21
\* C21: whenever get_image chooses among the images listed (owners alone, a
\* location regex alone, or both), the image it returns is in state available.
C21_SelectedImageAvailable ==
  (outcome.ret = "image" /\ image = NoImage) => outcome.image.state = "available"

\* ---- C22
C22_LaunchCalled(c) ==
  \E k \in DOMAIN log[c] : log[c][k] \in {"run", "request_spot_instances"}

C22_Started(c) == result[c].ret = "triple" /\ result[c].instance_id # NoInstance

\* C22: on the on-demand and on the spot path the launch call submits the image that
\* get_image resolves (the explicit image, or the winner among the listed ones),
\* and a start_instance that succeeds returns the id of that image.
C22_LaunchedImageIsResolved ==
  \A c \in Calls :
    GetImage.ret = "image"
      => /\ C22_LaunchCalled(c) => launched[c] = GetImage.image.id
         /\ C22_Started(c) => result[c].image_id = GetImage.image.id

\* ---- C23
C23_OnlyNotFound ==
  \A c \in Calls : err[c].kind = "EC2ResponseError" => err[c].args[1] # OtherError

C23_Launched == {i \in Calls : remote[i] # ABSENT}

C23_ObservedTerminal(i) ==
  \E d \in Calls :
    /\ op[d] = "stop" /\ stop_inst[d] = i /\ pc[d] = "done"
    /\ inst_state[i] \in Goal(fast[d])

C23_ReportedUnknown(i) ==
  \/ \E d \in Calls :
       /\ op[d] = "stop" /\ stop_inst[d] = i
       /\ \/ C8_UnknownAtRefresh(d)
          \/ err[d].kind = "EC2ResponseError" /\ err[d].args[1] = NotFound
  \/ /\ op[i] = "start"
     /\ err[i] = [kind |-> "EC2ResponseError", args |-> <<NotFound, "get_all_instances">>]

\* C23: with a scheduler that makes its next call only when the last one has ended
\* and with no error of EC2 but not-found, whenever no call is in progress and
\* self.instance is None, every instance launched for the controller was seen by
\* a stop in its terminal set or was answered not-found.
C23_NoLeakedInstance ==
  (Idle /\ C23_OnlyNotFound /\ instance = NoInstance)
    => \A i \in C23_Launched : C23_ObservedTerminal(i) \/ C23_ReportedUnknown(i)

\* ---- C24
\* start c ended without success after _wait_for_instance was entered for the
\* instance it launched
C24_FailedAfterLaunch(c) ==
  /\ op[c] = "start"
  /\ wait_image[c] # NoId
  /\ pc[c] = "failed" \/ (pc[c] = "done" /\ result[c] = NoneTriple)

C24_NoStopSince(c) == \A d \in Calls : d > c => op[d] # "stop"

\* C24: a start_instance that fails once its instance is launched (not running at
\* the end of the wait, or an error of EC2 in the wait or after it) leaves
\* self.instance set to that instance for as long as stop_instance is not called;
\* that is what makes every further start_instance fail its test of line 303 and
\* hands that instance to the teardown of the next stop_instance.
C24_FailedStartKeepsHandle ==
  \A c \in Calls :
    (C24_FailedAfterLaunch(c) /\ C24_NoStopSince(c)) => instance = c

====
